---- MODULE Spec2Model ----
(***************************************************************************)
(* Model of src/app.py (NFL Prop Hunter): the cached loader                *)
(* load_player_stats, the tail slice get_hit_rate and the script main,     *)
(* which Streamlit re-runs from top to bottom on every interaction.        *)
(*                                                                         *)
(* A DataFrame is a sequence of rows (records).  A cell of a stat column   *)
(* is NULL or Val(v).  The float threshold typed into "Input Value"        *)
(* (step .5) is kept as its number of halves, so 3 stands for 1.5 and the  *)
(* comparison  col > threshold  is  2 * v > halves.  The clock counts      *)
(* seconds.                                                                *)
(***************************************************************************)
EXTENDS Integers, Sequences, FiniteSets, TLC

VARIABLES
    upstream,          \* rows the remote provider holds (nfl.load_player_stats)
    providerUp,        \* whether a call of the provider succeeds right now
    now,               \* wall clock, seconds
    cache,             \* the st.cache_data entry of load_player_stats
    lastFetch,         \* time of the latest provider call, -1 before the first
    loadedFrom,        \* "none" | "provider" | "cache": how the last run got df
    df,                \* main: df
    unique_players,    \* main: unique_players
    selected_player,   \* main: selected_player
    player_stats,      \* main: player_stats
    position_prop,     \* main: posititon_prop
    prop_value_input,  \* main: prop_value_input, in halves
    last_n_games,      \* main: last_n_games
    last_n,            \* the value get_hit_rate returned
    hit_rate,          \* main: hit_rate after with_columns
    messages,          \* st.error / st.warning / st.info shown by the last run
    invoked,           \* StatsView steps the last run executed
    outcome            \* "idle" | "no_data" | "shown"

vars == <<upstream, providerUp, now, cache, lastFetch, loadedFrom, df,
          unique_players, selected_player, player_stats, position_prop,
          prop_value_input, last_n_games, last_n, hit_rate, messages,
          invoked, outcome>>

----------------------------------------------------------------------------
(* Bounds of the model *)

MaxRows == 3             \* rows the provider holds at most
MaxCacheRows == 1        \* the same, in the specification of the cache
MaxWindow == 4           \* largest "Last N Games" typed
MaxSkip == 1             \* largest magnitude of a negative "Last N Games"
MaxThresholdHalves == 3  \* largest "Input Value" typed, in halves
MaxHours == 13           \* the clock stops after this many hours

----------------------------------------------------------------------------
(* Constants of the program *)

SEASON_YEAR == 2024
RELEVANT_POSITIONS == {"QB"}
QB_STATS_WHITELIST == <<"passing_yards", "passing_tds", "completions">>
ttl == 3600 * 6
COLOR_GREEN == "#2ca02c"
COLOR_RED == "#d62728"

----------------------------------------------------------------------------
(* Values *)

NULL == [null |-> TRUE, v |-> 0]
Val(x) == [null |-> FALSE, v |-> x]
NONE == "None"

Range(s) == {s[i] : i \in 1..Len(s)}
Min(a, b) == IF a <= b THEN a ELSE b

\* The player names of the model, listed in alphabetical order.
ALPHABET == <<"Allen", "Burrow", "Chase">>
NameRank(name) == CHOOSE i \in 1..Len(ALPHABET) : ALPHABET[i] = name
PositionOf(name) == IF name = "Chase" THEN "WR" ELSE "QB"

\* One row of the provider's table, per (player, season, week).
Row(p, s, w) ==
    [player_display_name |-> p, position |-> PositionOf(p),
     season |-> s, week |-> w,
     passing_yards |-> Val(w),
     passing_tds |-> IF s = SEASON_YEAR THEN Val(1) ELSE NULL,
     completions |-> IF p = "Allen" THEN Val(2) ELSE Val(1)]

Rows ==
    {Row("Allen", SEASON_YEAR - 1, 2)}
    \cup {Row("Allen", SEASON_YEAR, w) : w \in {1, 2}}
    \cup {Row("Burrow", SEASON_YEAR, w) : w \in {1, 2}}
    \cup {Row("Chase", SEASON_YEAR, 1)}

\* Every table of at most n distinct rows, in every row order.
Tables(n) ==
    UNION {{t \in [1..k -> Rows] : \A i, j \in 1..k : i # j => t[i] # t[j]}
           : k \in 0..n}

----------------------------------------------------------------------------
(* load_player_stats and its cache *)

\* line 28: season_data.filter(pl.col("position").is_in(RELEVANT_POSITIONS))
FilterPositions(data) ==
    SelectSeq(data, LAMBDA r : r.position \in RELEVANT_POSITIONS)

\* lines 23-31: the body of load_player_stats; a failed fetch is caught and
\* an empty, column-less DataFrame is the normal return value.
Fetch(up, data) ==
    IF up THEN [failed |-> FALSE, df |-> FilterPositions(data)]
          ELSE [failed |-> TRUE, df |-> <<>>]

NoEntry == [valid |-> FALSE, created |-> 0, failed |-> FALSE, df |-> <<>>]

\* line 18: an entry is served while it is younger than ttl.
CacheLive(c, t) == c.valid /\ t < c.created + ttl

\* Mutant: CacheStore that keeps no entry for a failed fetch.
CacheStore_SkipFailure(res, t) ==
    IF res.failed THEN NoEntry
    ELSE [valid |-> TRUE, created |-> t, failed |-> res.failed, df |-> res.df]

\* line 18: whatever the function returned is stored, with the time.
CacheStore(res, t) ==
    [valid |-> TRUE, created |-> t, failed |-> res.failed, df |-> res.df]

\* lines 18-31: the decorated function, as main calls it.  The st.error of
\* line 30 is part of the cached result and is shown again on a hit.
load_player_stats(c, t, up, data) ==
    IF CacheLive(c, t)
    THEN [df |-> c.df, cache |-> c, fetched |-> FALSE, error |-> c.failed]
    ELSE LET res == Fetch(up, data)
         IN  [df |-> res.df, cache |-> CacheStore(res, t), fetched |-> TRUE,
              error |-> res.failed]

----------------------------------------------------------------------------
(* StatsView: the steps of main and get_hit_rate *)

\* Mutant: EarlyReturn that never returns.
EarlyReturn_Never(frame) == FALSE

\* line 64: df.is_empty()
EarlyReturn(frame) == Len(frame) = 0

\* Mutant: ListDistinctPlayers without unique() and sort().
ListDistinctPlayers_Raw(frame) ==
    [i \in 1..Len(frame) |-> frame[i].player_display_name]

\* line 70: select("player_display_name").unique().sort(...).to_list()
ListDistinctPlayers(frame) ==
    LET names == {frame[i].player_display_name : i \in 1..Len(frame)}
    IN  CHOOSE l \in [1..Cardinality(names) -> names] :
            /\ Range(l) = names
            /\ \A i, j \in 1..Len(l) : i < j => NameRank(l[i]) < NameRank(l[j])

\* lines 73-77, 88-91: st.selectbox returns the option the user chose; the
\* first option (index 0) when the widget holds none of them, None when
\* there is no option.
selectbox(options, chosen) ==
    IF chosen \in Range(options) THEN chosen
    ELSE IF Len(options) = 0 THEN NONE ELSE options[1]

\* Mutant: FilterPlayer without its predicate.
FilterPlayer_All(frame, name) == frame

\* lines 80-81: df.filter(pl.col("player_display_name") == selected_player)
FilterPlayer(frame, name) ==
    SelectSeq(frame, LAMBDA r : r.player_display_name = name)

\* line 82: .sort(pl.col("season")).  The sort key is the season alone and
\* maintain_order is left at False, so rows of one season come out in any
\* order: every arrangement of the rows with the seasons ascending.
SortBySeason(frame) ==
    LET k == Len(frame)
    IN  {[i \in 1..k |-> frame[f[i]]] :
            f \in {g \in [1..k -> 1..k] :
                    /\ \A i, j \in 1..k : i # j => g[i] # g[j]
                    /\ \A i \in 1..k : i < k =>
                          frame[g[i]].season <= frame[g[i + 1]].season}}

\* line 47: player_stats.select([position_prop, "week"])
SelectProp(frame, prop) ==
    [i \in 1..Len(frame) |-> [week |-> frame[i].week, value |-> frame[i][prop]]]

\* Mutant: tail taking the rows from the front.
tail_Head(frame, n) ==
    LET len == Len(frame)
        keep == IF n >= 0 THEN Min(n, len) ELSE len - Min(0 - n, len)
    IN  SubSeq(frame, 1, keep)

\* line 47: .tail(n); a negative n keeps all rows but the first abs(n).
tail(frame, n) ==
    LET len == Len(frame)
        keep == IF n >= 0 THEN Min(n, len) ELSE len - Min(0 - n, len)
    IN  SubSeq(frame, len - keep + 1, len)

\* A Python value with its type: what a function returns.
DataFrame(rows) == [type |-> "DataFrame", rows |-> rows]
Integer(n) == [type |-> "int", value |-> n]

\* lines 39-54: get_hit_rate returns last_n_games, the tail frame; the count
\* its docstring and comments describe is never computed.
get_hit_rate(value, prop, stats, n) ==
    DataFrame(tail(SelectProp(stats, prop), n))

\* Mutant: Gt with an inclusive comparison.
Gt_Inclusive(cell, halves) == ~cell.null /\ 2 * cell.v >= halves

\* line 113: pl.col(prop) > prop_value_input; a null cell compares to null,
\* which pl.when treats as not true.
Gt(cell, halves) == ~cell.null /\ 2 * cell.v > halves

\* lines 112-117: with_columns(pl.when(...).then(green).otherwise(red))
Classify(frame, halves) ==
    [i \in 1..Len(frame) |->
        [week |-> frame[i].week, value |-> frame[i].value,
         color_condition |-> IF Gt(frame[i].value, halves) THEN COLOR_GREEN
                                                          ELSE COLOR_RED]]

----------------------------------------------------------------------------
(* The state machine *)

InitRun ==
    /\ now = 0
    /\ cache = NoEntry
    /\ lastFetch = -1
    /\ loadedFrom = "none"
    /\ df = <<>>
    /\ unique_players = <<>>
    /\ selected_player = NONE
    /\ player_stats = <<>>
    /\ position_prop = NONE
    /\ prop_value_input = 0
    /\ last_n_games = 0
    /\ last_n = DataFrame(<<>>)
    /\ hit_rate = <<>>
    /\ messages = {}
    /\ invoked = {}
    /\ outcome = "idle"

Init ==
    /\ upstream \in Tables(MaxRows)
    /\ providerUp \in BOOLEAN
    /\ InitRun

InitCache ==
    /\ upstream \in Tables(MaxCacheRows)
    /\ providerUp \in BOOLEAN
    /\ InitRun

\* lines 57-136: one run of the script, the widgets holding player, prop,
\* halves and n.  A widget the run does not reach loses its value.
Main(player, prop, halves, n) ==
    LET ld == load_player_stats(cache, now, providerUp, upstream)
        errs == IF ld.error THEN {"error"} ELSE {}
    IN  /\ cache' = ld.cache
        /\ df' = ld.df
        /\ lastFetch' = IF ld.fetched THEN now ELSE lastFetch
        /\ loadedFrom' = IF ld.fetched THEN "provider" ELSE "cache"
        /\ IF EarlyReturn(ld.df)
           THEN /\ messages' = errs \cup {"warning"}
                /\ outcome' = "no_data"
                /\ invoked' = {}
                /\ unique_players' = <<>>
                /\ selected_player' = NONE
                /\ player_stats' = <<>>
                /\ position_prop' = NONE
                /\ prop_value_input' = 0
                /\ last_n_games' = 0
                /\ last_n' = DataFrame(<<>>)
                /\ hit_rate' = <<>>
           ELSE LET players == ListDistinctPlayers(ld.df)
                    sel == selectbox(players, player)
                    posprop == selectbox(QB_STATS_WHITELIST, prop)
                IN  \E stats \in SortBySeason(FilterPlayer(ld.df, sel)) :
                    LET window == get_hit_rate(halves, posprop, stats, n)
                    IN  /\ unique_players' = players
                        /\ selected_player' = sel
                        /\ player_stats' = stats
                        /\ position_prop' = posprop
                        /\ prop_value_input' = halves
                        /\ last_n_games' = n
                        /\ last_n' = window
                        /\ hit_rate' = Classify(window.rows, halves)
                        /\ invoked' = {"filter", "get_hit_rate", "classify"}
                        /\ messages' = errs \cup
                              (IF Len(stats) = 0 THEN {"info"} ELSE {})
                        /\ outcome' = "shown"
        /\ UNCHANGED <<upstream, providerUp, now>>

\* The script runs with the widgets as they are (first load, refresh).
Rerun == Main(selected_player, position_prop, prop_value_input, last_n_games)

\* The user picks a player in "Select Player"; the script runs again.
SelectPlayer ==
    /\ outcome = "shown"
    /\ \E p \in Range(unique_players) \ {selected_player} :
          Main(p, position_prop, prop_value_input, last_n_games)

\* The user picks a prop in "Select Player Prop".
SelectPlayerProp ==
    /\ outcome = "shown"
    /\ \E p \in Range(QB_STATS_WHITELIST) \ {position_prop} :
          Main(selected_player, p, prop_value_input, last_n_games)

\* The user steps "Input Value" by .5 up or down.
StepInputValue ==
    /\ outcome = "shown"
    /\ \E h \in {prop_value_input - 1, prop_value_input + 1} :
          /\ h \in 0..MaxThresholdHalves
          /\ Main(selected_player, position_prop, h, last_n_games)

\* The user steps "Last N Games" by 1 up or down; the input has no minimum.
StepLastNGames ==
    /\ outcome = "shown"
    /\ \E n \in {last_n_games - 1, last_n_games + 1} :
          /\ n \in (0 - MaxSkip)..MaxWindow
          /\ Main(selected_player, position_prop, prop_value_input, n)

\* An hour passes.
Tick ==
    /\ now + 3600 <= 3600 * MaxHours
    /\ now' = now + 3600
    /\ UNCHANGED <<upstream, providerUp, cache, lastFetch, loadedFrom, df,
                   unique_players, selected_player, player_stats,
                   position_prop, prop_value_input, last_n_games, last_n,
                   hit_rate, messages, invoked, outcome>>

\* The remote service goes down or comes back.
ProviderFlip ==
    /\ providerUp' = ~providerUp
    /\ UNCHANGED <<upstream, now, cache, lastFetch, loadedFrom, df,
                   unique_players, selected_player, player_stats,
                   position_prop, prop_value_input, last_n_games, last_n,
                   hit_rate, messages, invoked, outcome>>

Next ==
    \/ Rerun
    \/ SelectPlayer
    \/ SelectPlayerProp
    \/ StepInputValue
    \/ StepLastNGames

Spec == Init /\ [][Next]_vars

NextCache == Rerun \/ Tick \/ ProviderFlip

SpecCache == InitCache /\ [][NextCache]_vars

----------------------------------------------------------------------------
(* Properties *)

Shown == outcome = "shown"

\* C1: every row of the trailing window is green exactly when its stat
\* value is strictly greater than the threshold; a value equal to the
\* threshold is never green.
C1_StrictThreshold ==
    Shown =>
        /\ Len(hit_rate) = Len(last_n.rows)
        /\ \A i \in 1..Len(hit_rate) :
              /\ hit_rate[i].value = last_n.rows[i].value
              /\ hit_rate[i].week = last_n.rows[i].week
              /\ hit_rate[i].color_condition \in {COLOR_GREEN, COLOR_RED}
              /\ (hit_rate[i].color_condition = COLOR_GREEN) <=>
                    (/\ ~hit_rate[i].value.null
                     /\ 2 * hit_rate[i].value.v > prop_value_input)

C1_Witness ==
    /\ Shown
    /\ \E i, j \in 1..Len(hit_rate) :
          /\ ~hit_rate[i].value.null
          /\ 2 * hit_rate[i].value.v = prop_value_input
          /\ hit_rate[i].color_condition = COLOR_RED
          /\ hit_rate[j].color_condition = COLOR_GREEN

\* C2: for a window size n >= 0 get_hit_rate returns the last
\* min(n, len(history)) rows of the history, in the history's order.
C2_TrailingWindow ==
    (Shown /\ last_n_games >= 0) =>
        LET len == Len(player_stats)
            k == Len(last_n.rows)
        IN  /\ k = Min(last_n_games, len)
            /\ \A i \in 1..k :
                  /\ last_n.rows[i].week = player_stats[len - k + i].week
                  /\ last_n.rows[i].value =
                        player_stats[len - k + i][position_prop]

C2_Witness ==
    /\ Shown
    /\ last_n_games = 2
    /\ Len(player_stats) = 3
    /\ Len(last_n.rows) = 2
    /\ last_n.rows[2].week = player_stats[3].week
    /\ last_n.rows[1].week # player_stats[1].week

\* C3: the player history is ascending by (season, week): of two
\* consecutive rows the first is strictly earlier.
C3_HistorySortedBySeasonWeek ==
    Shown =>
        \A i \in 1..(Len(player_stats) - 1) :
            \/ player_stats[i].season < player_stats[i + 1].season
            \/ /\ player_stats[i].season = player_stats[i + 1].season
               /\ player_stats[i].week < player_stats[i + 1].week

\* C4: the hit rate get_hit_rate returns is an integer, the number of rows
\* of the window classified as hit, between 0 and the window's length.
C4_HitRateIsHitCount ==
    Shown =>
        /\ last_n.type = "int"
        /\ last_n.value =
              Cardinality({i \in 1..Len(hit_rate) :
                              hit_rate[i].color_condition = COLOR_GREEN})
        /\ last_n.value \in 0..Len(hit_rate)

\* C5: a negative window size is rejected: the run does not show a chart
\* and no window row is returned.
C5_NegativeWindowRejected ==
    (outcome # "idle" /\ last_n_games < 0) =>
        /\ outcome = "invalid_argument"
        /\ Len(last_n.rows) = 0
        /\ Len(hit_rate) = 0

\* C6: a record with no value for the requested prop never appears in the
\* result with a null stat value or a classification.
C6_MissingFieldRejected ==
    Shown => \A i \in 1..Len(hit_rate) : ~hit_rate[i].value.null

\* C7: the history is exactly the selected player's rows of the dataset,
\* and every row of the window and of the chart comes from one of them.
C7_NoCrossPlayerMixing ==
    Shown =>
        /\ \A i \in 1..Len(player_stats) :
              /\ player_stats[i].player_display_name = selected_player
              /\ player_stats[i] \in Range(df)
        /\ \A i \in 1..Len(df) :
              df[i].player_display_name = selected_player =>
                  df[i] \in Range(player_stats)
        /\ Len(player_stats) =
              Cardinality({i \in 1..Len(df) :
                              df[i].player_display_name = selected_player})
        /\ \A i \in 1..Len(hit_rate) :
              \E r \in Range(df) :
                  /\ r.player_display_name = selected_player
                  /\ r.week = hit_rate[i].week
                  /\ r[position_prop] = hit_rate[i].value
                  /\ last_n.rows[i].week = r.week
                  /\ last_n.rows[i].value = r[position_prop]

C7_Witness ==
    /\ Shown
    /\ Len(hit_rate) = 2
    /\ \E i \in 1..Len(df) : df[i].player_display_name # selected_player
    /\ df[2].player_display_name # df[1].player_display_name
    /\ df[2].player_display_name # df[3].player_display_name

\* C8: when the fetch raised, the dataset is empty, the error and the
\* warning are shown and no StatsView step runs; main returns before any of
\* them whenever the dataset is empty.
C8_FetchFailureFallsBack ==
    /\ (loadedFrom = "provider" /\ cache.valid /\ cache.failed) =>
          /\ Len(df) = 0
          /\ {"error", "warning"} \subseteq messages
    /\ (outcome # "idle" /\ Len(df) = 0) =>
          /\ outcome = "no_data"
          /\ "warning" \in messages
          /\ invoked = {}
          /\ Len(player_stats) = 0
          /\ Len(hit_rate) = 0

C8_Witness ==
    /\ loadedFrom = "provider"
    /\ cache.failed
    /\ outcome = "no_data"
    /\ Len(upstream) > 0
    /\ invoked = {}

\* C9: unique_players holds every player name of the dataset once, in
\* alphabetical order; the selected player is one of them and has a
\* non-empty history.
C9_DistinctPlayersSorted ==
    Shown =>
        /\ Range(unique_players) =
              {df[i].player_display_name : i \in 1..Len(df)}
        /\ \A i, j \in 1..Len(unique_players) :
              i < j => NameRank(unique_players[i]) < NameRank(unique_players[j])
        /\ selected_player \in {df[i].player_display_name : i \in 1..Len(df)}
        /\ Len(player_stats) >= 1

C9_Witness ==
    /\ Shown
    /\ Len(df) = 3
    /\ unique_players = <<"Allen", "Burrow">>
    /\ df[1].player_display_name = "Burrow"
    /\ df[3].player_display_name = "Burrow"
    /\ selected_player = "Burrow"

\* C10: while an entry younger than the TTL exists, failed or not, no step
\* calls the provider or replaces the entry, and a run served from a failed
\* entry gets the empty dataset even if the provider is up; a run without
\* such an entry calls the provider; two provider calls are at least one
\* TTL apart.
C10_FailedFetchCached ==
    [][/\ (cache.valid /\ now < cache.created + ttl) =>
              /\ lastFetch' = lastFetch
              /\ cache' = cache
              /\ (now' = now /\ providerUp' = providerUp) =>
                    /\ loadedFrom' = "cache"
                    /\ df' = cache.df
                    /\ cache.failed =>
                          (Len(df') = 0 /\ outcome' = "no_data")
       /\ (/\ ~(cache.valid /\ now < cache.created + ttl)
           /\ now' = now /\ providerUp' = providerUp) =>
              /\ lastFetch' = now
              /\ loadedFrom' = "provider"
              /\ cache'.valid /\ cache'.created = now
              /\ cache'.failed = ~providerUp
       /\ (lastFetch' # lastFetch) =>
              (lastFetch = -1 \/ now >= lastFetch + ttl)
      ]_vars

C10_Witness ==
    /\ loadedFrom = "cache"
    /\ cache.valid /\ cache.failed
    /\ providerUp
    /\ Len(upstream) > 0 /\ upstream[1].position = "QB"
    /\ now > cache.created
    /\ now < cache.created + ttl
    /\ Len(df) = 0
    /\ lastFetch >= ttl

====
